---- MODULE Spec2Model ----
(***************************************************************************)
(* Model of supabase_integration.py: a FastAPI application with five       *)
(* routes over the remote table "items".                                   *)
(*                                                                         *)
(* Representation choices                                                  *)
(*   - An optional parameter (Python `x | None`) is a set with at most one *)
(*     element: {} is None, {v} is the supplied value v.                   *)
(*   - A price (Python float) is an integer number of hundredths, so 199   *)
(*     stands for 1.99 and 0 for 0.0.                                      *)
(*   - A Category enum member is its symbolic name ("TOOLS"); the string   *)
(*     the store holds is its value ("tools"). The two are converted by    *)
(*     CategoryParse / CategoryValue and never identified.                 *)
(*   - A Python list and a Python dict that are both empty are different   *)
(*     values: EmptyList and EmptyDict.                                    *)
(*   - The handler of PUT /update/{item_id} makes two store calls; other   *)
(*     requests may be served between them, so it is two actions,          *)
(*     UpdateLookup and UpdateWrite. Every other handler makes one store   *)
(*     call and is one action. Parameter validation by the framework runs  *)
(*     before the handler and touches no shared state, so it is part of    *)
(*     the handler's first action.                                         *)
(*   - Every .execute() of the source is a Response, and a handler reads   *)
(*     the store's rows only from the data of a Response. The round trips  *)
(*     of a request are the responses its handler obtained, and their      *)
(*     number is counted from them.                                        *)
(***************************************************************************)
EXTENDS Integers, Sequences, FiniteSets, TLC

VARIABLES
    store,      \* rows of the remote table "items", in the order the store returns them
    nextId,     \* the identity the store assigns to the next inserted row
    inflight,   \* the update requests between their lookup and their write
    last,       \* the request served by the latest step, with its outcome;
                \* Idle when that step's record has been dropped
    served      \* the number of requests received so far

vars == <<store, nextId, inflight, last, served>>

----------------------------------------------------------------------------
(* Bounds *)

\* the number of requests the service receives in a run
MaxRequests == 3

----------------------------------------------------------------------------
(* Inputs *)

Names == {"", "Nails", "Screwdriver"}
Prices == {0, 199}
Counts == {-1, 20}
CategoryStrings == {"tools", "consumables", "weapons"}
ItemIds == {-1, 0, 1}

None == {}
Some(v) == {v}
Opt(S) == {None} \cup {Some(v) : v \in S}
Get(o) == CHOOSE v \in o : TRUE

\* the query string of GET /items/ and of PUT /update/{item_id}
QueryParams ==
    [name : Opt(Names), price : Opt(Prices), count : Opt(Counts),
     category : Opt(CategoryStrings)]

\* the JSON body of POST /; the name is one no update can set, being longer
\* than update allows
Bodies ==
    [name : {"Screwdriver"}, price : Prices, count : Counts,
     category : CategoryStrings]

\* the Python list []
EmptyList == [py |-> "list", len |-> 0]

----------------------------------------------------------------------------
(* class Category(Enum) *)

CategoryMembers == {"TOOLS", "CONSUMABLES"}

CategoryValue(m) == IF m = "TOOLS" THEN "tools" ELSE "consumables"

\* Category(s): the member whose value is s; no member, a validation error
CategoryValid(s) == \E m \in CategoryMembers : CategoryValue(m) = s

CategoryParse(s) == CHOOSE m \in CategoryMembers : CategoryValue(m) = s

----------------------------------------------------------------------------
(* class Item(BaseModel) *)

\* Item(**d) succeeds: the category is the value of a member. The other
\* fields carry no constraint (a str, a float, an int).
ItemValid(d) == CategoryValid(d.category)

\* Item(**d): the four declared fields; any other key of d (the row's id) is ignored
ItemParse(d) ==
    [name |-> d.name, price |-> d.price, count |-> d.count,
     category |-> CategoryParse(d.category)]

\* item.model_dump() followed by data["category"] = item.category.value
ItemDump(item) ==
    [name |-> item.name, price |-> item.price, count |-> item.count,
     category |-> CategoryValue(item.category)]

\* [Item(**item) for item in response.data]
ParseAll(rows) == [i \in 1 .. Len(rows) |-> ItemParse(rows[i])]

\* the JSON the framework writes for a list of Item
DumpAll(items) == [i \in 1 .. Len(items) |-> ItemDump(items[i])]

----------------------------------------------------------------------------
(* The remote table: supabase.table("items") *)

\* .select("*"): a query with no filter yet
SelectAll == << >>

\* query.eq(column, value): one more equality filter
Eq(query, column, value) == Append(query, <<column, value>>)

Matches(row, filter) == row[filter[1]] = filter[2]

\* the rows that pass every filter of the query, filter after filter, in store order
RECURSIVE Filtered(_, _)
Filtered(rows, query) ==
    IF query = << >> THEN rows
    ELSE LET f == Head(query)
             Keep(row) == Matches(row, f)
         IN  Filtered(SelectSeq(rows, Keep), Tail(query))

\* select(...).execute(): response.data
ExecuteSelect(rows, query) == Filtered(rows, query)

\* insert(data).execute(): the store assigns the id and appends the row
InsertedRow(data, id) ==
    [id |-> id, name |-> data.name, price |-> data.price, count |-> data.count,
     category |-> data.category]

ExecuteInsert(rows, data, id) == Append(rows, InsertedRow(data, id))

\* one row after update(update_data): the supplied columns are overwritten
Patched(row, update_data) ==
    [id |-> row.id,
     name |-> IF update_data.name # None THEN Get(update_data.name) ELSE row.name,
     price |-> IF update_data.price # None THEN Get(update_data.price) ELSE row.price,
     count |-> IF update_data.count # None THEN Get(update_data.count) ELSE row.count,
     category |-> IF update_data.category # None THEN Get(update_data.category)
                  ELSE row.category]

\* mutant of ExecuteUpdate: the .eq("id", item_id) filter is missing
ExecuteUpdate_NoFilter(rows, update_data, item_id) ==
    [i \in 1 .. Len(rows) |-> Patched(rows[i], update_data)]

\* update(update_data).eq("id", item_id).execute(): the table afterwards
ExecuteUpdate(rows, update_data, item_id) ==
    [i \in 1 .. Len(rows) |->
        IF rows[i].id = item_id THEN Patched(rows[i], update_data) ELSE rows[i]]

\* ... and its response.data: the rows it updated
UpdatedRows(rows, update_data, item_id) ==
    ExecuteSelect(ExecuteUpdate(rows, update_data, item_id),
                  Eq(SelectAll, "id", item_id))

\* delete().eq("id", item_id).execute(): the table afterwards
ExecuteDelete(rows, item_id) ==
    LET Keep(row) == row.id # item_id IN SelectSeq(rows, Keep)

\* ... and its response.data: the rows it deleted
DeletedRows(rows, item_id) == ExecuteSelect(rows, Eq(SelectAll, "id", item_id))

\* .execute(): one round trip to the store, and the response it brings back
Response(op, data) == [op |-> op, data |-> data]

\* the round trips behind the responses a handler has obtained, in order
Trips(responses) == [i \in 1 .. Len(responses) |-> responses[i].op]

----------------------------------------------------------------------------
(* What the framework does around a handler *)

\* a parameter or body that fails validation: the handler is not called
Rejected(request) ==
    [outcome |-> "rejected", trips |-> << >>, calls |-> Len(<< >>),
     status |-> 422, body |-> [detail |-> "validation error"]] @@ request

\* the handler returned ret after the round trips `trips` and the framework
\* wrote body with the route's status code, 200 for every route (no decorator
\* sets status_code)
Returned(request, trips, ret, body) ==
    [outcome |-> "returned", trips |-> trips, calls |-> Len(trips), ret |-> ret,
     status |-> 200, body |-> body] @@ request

\* the handler raised, or its return value failed the declared return type
Raised(request, trips, ret) ==
    [outcome |-> "raised", trips |-> trips, calls |-> Len(trips), ret |-> ret,
     status |-> 500, body |-> "Internal Server Error"] @@ request

\* the handler is between two store calls
Running(request, trips) ==
    [outcome |-> "running", trips |-> trips, calls |-> Len(trips)] @@ request

\* the Python tuple (body, code) that update returns
PyTuple(body, code) == [py |-> "tuple", items |-> <<body, code>>]

\* a handler without a return annotation that returns a tuple: the framework
\* encodes the tuple as the JSON array of its items, here [body, code]; the
\* code is data of the body, not the status of the response
TupleBody(ret) == ret.items

\* update's `return body, code`
ReturnedTuple(request, trips, body, code) ==
    Returned(request, trips, PyTuple(body, code), TupleBody(PyTuple(body, code)))

----------------------------------------------------------------------------
(* GET / *)

\* no step recorded: every route starts from here, since a handler reads
\* nothing that an earlier request left in the process
Idle == [route |-> "none", outcome |-> "none", trips |-> << >>, calls |-> Len(<< >>)]

index ==
    LET response == Response("select", ExecuteSelect(store, SelectAll))
        request  == [route |-> "index"]
        trips    == Trips(<<response>>)
    IN  /\ last' =
            IF \A i \in 1 .. Len(response.data) : ItemValid(response.data[i])
            THEN LET items == ParseAll(response.data)
                 IN  Returned(request, trips, [data |-> items],
                              [data |-> DumpAll(items)])
            ELSE Raised(request, trips, "ValidationError")
        /\ UNCHANGED <<store, nextId, inflight>>

----------------------------------------------------------------------------
(* GET /items/ *)

QueryValid(q) == q.category # None => CategoryValid(Get(q.category))

\* mutant of BuildQuery: the category filter compares with the member's
\* name instead of its value
BuildQuery_MemberName(name, price, count, category) ==
    LET q0 == SelectAll
        q1 == IF name # None THEN Eq(q0, "name", Get(name)) ELSE q0
        q2 == IF price # None THEN Eq(q1, "price", Get(price)) ELSE q1
        q3 == IF count # None THEN Eq(q2, "count", Get(count)) ELSE q2
        q4 == IF category # None THEN Eq(q3, "category", Get(category)) ELSE q3
    IN  q4

\* the query the handler builds from the parameters that are not None
BuildQuery(name, price, count, category) ==
    LET q0 == SelectAll
        q1 == IF name # None THEN Eq(q0, "name", Get(name)) ELSE q0
        q2 == IF price # None THEN Eq(q1, "price", Get(price)) ELSE q1
        q3 == IF count # None THEN Eq(q2, "count", Get(count)) ELSE q2
        q4 == IF category # None
              THEN Eq(q3, "category", CategoryValue(Get(category))) ELSE q3
    IN  q4

\* the category parameter as the framework hands it to a handler
CategoryParam(raw) == IF raw = None THEN None ELSE Some(CategoryParse(Get(raw)))

\* the JSON of a parameter echo: a member is written as its value
EchoDump(name, price, count, category) ==
    [name |-> name, price |-> price, count |-> count,
     category |-> IF category = None THEN None ELSE Some(CategoryValue(Get(category)))]

query_item_by_parameters(q) ==
    LET request  == [route |-> "query", query |-> q]
        category == CategoryParam(q.category)
        response ==
            Response("select",
                     ExecuteSelect(store, BuildQuery(q.name, q.price, q.count, category)))
        trips    == Trips(<<response>>)
    IN  /\ last' =
            IF ~QueryValid(q) THEN Rejected(request)
            ELSE IF \A i \in 1 .. Len(response.data) : ItemValid(response.data[i])
            THEN LET items == ParseAll(response.data)
                 IN  Returned(request, trips,
                        [query |-> [name |-> q.name, price |-> q.price,
                                    count |-> q.count, category |-> category],
                         selection |-> items],
                        [query |-> EchoDump(q.name, q.price, q.count, category),
                         selection |-> DumpAll(items)])
            ELSE Raised(request, trips, "ValidationError")
        /\ UNCHANGED <<store, nextId, inflight>>

----------------------------------------------------------------------------
(* POST / *)

add_item(b) ==
    LET request == [route |-> "add", item |-> b]
    IN  IF ~ItemValid(b)
        THEN /\ last' = Rejected(request)
             /\ UNCHANGED <<store, nextId, inflight>>
        ELSE LET item == ItemParse(b)
                 data == ItemDump(item)
                 response == Response("insert", <<InsertedRow(data, nextId)>>)
             IN  /\ store' = ExecuteInsert(store, data, nextId)
                 /\ nextId' = nextId + 1
                 /\ last' = Returned(request, Trips(<<response>>), [added |-> item],
                                     [added |-> ItemDump(item)])
                 /\ UNCHANGED inflight

----------------------------------------------------------------------------
(* PUT /update/{item_id} *)

NameMinLength == 1
NameMaxLength == 8

\* mutant of UpdateValid: the price bound is ge=0.0 instead of gt=0.0
UpdateValid_PriceGe(item_id, q) ==
    /\ item_id >= 0
    /\ q.name # None =>
          /\ Len(Get(q.name)) >= NameMinLength
          /\ Len(Get(q.name)) <= NameMaxLength
    /\ q.price # None => Get(q.price) >= 0
    /\ q.count # None => Get(q.count) >= 0
    /\ q.category # None => CategoryValid(Get(q.category))

\* Path(ge=0), Query(min_length=1, max_length=8), Query(gt=0.0), Query(ge=0)
\* and the Category enum
UpdateValid(item_id, q) ==
    /\ item_id >= 0
    /\ q.name # None =>
          /\ Len(Get(q.name)) >= NameMinLength
          /\ Len(Get(q.name)) <= NameMaxLength
    /\ q.price # None => Get(q.price) > 0
    /\ q.count # None => Get(q.count) >= 0
    /\ q.category # None => CategoryValid(Get(q.category))

\* update_data: a key for each parameter that is not None, the category as its value
UpdateData(name, price, count, category) ==
    [name |-> name, price |-> price, count |-> count,
     category |-> IF category # None THEN Some(CategoryValue(Get(category))) ELSE None]

\* `if update_data:` a dict with at least one key
NonEmpty(update_data) ==
    \/ update_data.name # None
    \/ update_data.price # None
    \/ update_data.count # None
    \/ update_data.category # None

\* mutant of UpdateLookup: the `if not existing_item_response.data` check is
\* missing, so the handler goes on to its write whether or not the row exists
UpdateLookup_NoExistenceCheck(item_id, q) ==
    LET request == [route |-> "update", item_id |-> item_id, query |-> q]
    IN  IF ~UpdateValid(item_id, q)
        THEN /\ last' = Rejected(request)
             /\ UNCHANGED <<store, nextId, inflight>>
        ELSE LET existing_item_response ==
                     Response("select",
                              ExecuteSelect(store, Eq(SelectAll, "id", item_id)))
                 trips == Trips(<<existing_item_response>>)
                 update_data ==
                     UpdateData(q.name, q.price, q.count, CategoryParam(q.category))
             IN  IF NonEmpty(update_data)
                 THEN /\ inflight' = Append(inflight,
                            [item_id |-> item_id, query |-> q,
                             update_data |-> update_data, trips |-> trips])
                      /\ last' = Running(request, trips)
                      /\ UNCHANGED <<store, nextId>>
                 ELSE /\ last' = ReturnedTuple(request, trips,
                                         [message |-> "No fields to update"], 400)
                      /\ UNCHANGED <<store, nextId, inflight>>

\* the handler up to and including its first store call, and what follows
\* it without a further store call
UpdateLookup(item_id, q) ==
    LET request == [route |-> "update", item_id |-> item_id, query |-> q]
    IN  IF ~UpdateValid(item_id, q)
        THEN /\ last' = Rejected(request)
             /\ UNCHANGED <<store, nextId, inflight>>
        ELSE LET existing_item_response ==
                     Response("select",
                              ExecuteSelect(store, Eq(SelectAll, "id", item_id)))
                 trips == Trips(<<existing_item_response>>)
                 update_data ==
                     UpdateData(q.name, q.price, q.count, CategoryParam(q.category))
             IN  IF existing_item_response.data = << >>
                 THEN /\ last' = ReturnedTuple(request, trips,
                                         [message |-> "Item not found"], 404)
                      /\ UNCHANGED <<store, nextId, inflight>>
                 ELSE IF NonEmpty(update_data)
                 THEN /\ inflight' = Append(inflight,
                            [item_id |-> item_id, query |-> q,
                             update_data |-> update_data, trips |-> trips])
                      /\ last' = Running(request, trips)
                      /\ UNCHANGED <<store, nextId>>
                 ELSE /\ last' = ReturnedTuple(request, trips,
                                         [message |-> "No fields to update"], 400)
                      /\ UNCHANGED <<store, nextId, inflight>>

\* the second store call of the k-th running update, and the handler's
\* return; p.trips are the round trips the handler made before this one
UpdateWrite(k) ==
    LET p        == inflight[k]
        request  == [route |-> "update", item_id |-> p.item_id, query |-> p.query]
        response == Response("update", UpdatedRows(store, p.update_data, p.item_id))
        trips    == p.trips \o Trips(<<response>>)
    IN  /\ inflight' = [i \in 1 .. Len(inflight) - 1 |->
                            IF i < k THEN inflight[i] ELSE inflight[i + 1]]
        /\ store' = ExecuteUpdate(store, p.update_data, p.item_id)
        /\ last' =
            IF response.data = << >>
            THEN ReturnedTuple(request, trips,
                    [message |-> "Item was not updated", data |-> response.data], 400)
            ELSE ReturnedTuple(request, trips,
                    [message |-> "Item updated successfully", data |-> response.data],
                    200)
        /\ UNCHANGED nextId

----------------------------------------------------------------------------
(* DELETE /delete/{item_id} *)

\* the declared return type dict[str, Item]: the value under "deleted" must
\* be a valid Item, which a row is and the list [] is not
DeleteResponse(request, trips, ret) ==
    IF ret.deleted # EmptyList /\ ItemValid(ret.deleted)
    THEN Returned(request, trips, ret, [deleted |-> ItemDump(ItemParse(ret.deleted))])
    ELSE Raised(request, trips, ret)

delete_item(item_id) ==
    LET request  == [route |-> "delete", item_id |-> item_id]
        response == Response("delete", DeletedRows(store, item_id))
        deleted  == IF response.data # << >> THEN response.data[1] ELSE EmptyList
    IN  /\ store' = ExecuteDelete(store, item_id)
        /\ last' = DeleteResponse(request, Trips(<<response>>), [deleted |-> deleted])
        /\ UNCHANGED <<nextId, inflight>>

----------------------------------------------------------------------------
(* The service *)

\* The step is over: the process keeps nothing of a request it has served
\* or of a store call it has made, so the next step starts from a blank record.
StepOver ==
    /\ last # Idle
    /\ last' = Idle
    /\ UNCHANGED <<store, nextId, inflight, served>>

Init ==
    /\ store = << >>
    /\ nextId = 0
    /\ inflight = << >>
    /\ last = Idle
    /\ served = 0

\* The routes: the framework receives a request, validates it and calls the handler
Receive == last = Idle /\ served < MaxRequests /\ served' = served + 1

GetRoot == Receive /\ index

GetItems == Receive /\ \E q \in QueryParams : query_item_by_parameters(q)

PostRoot == Receive /\ \E b \in Bodies : add_item(b)

PutUpdate ==
    Receive /\ \E item_id \in ItemIds, q \in QueryParams : UpdateLookup(item_id, q)

\* a running update goes on to its second store call
PutUpdateResume ==
    /\ last = Idle
    /\ \E k \in 1 .. Len(inflight) : UpdateWrite(k)
    /\ UNCHANGED served

DeleteDelete == Receive /\ \E item_id \in ItemIds : delete_item(item_id)

Next ==
    \/ GetRoot
    \/ GetItems
    \/ PostRoot
    \/ PutUpdate
    \/ PutUpdateResume
    \/ DeleteDelete
    \/ StepOver

Spec == Init /\ [][Next]_vars

----------------------------------------------------------------------------
(* Vocabulary of the properties *)

HasId(rows, item_id) == \E i \in 1 .. Len(rows) : rows[i].id = item_id

NoParams == [name |-> None, price |-> None, count |-> None, category |-> None]

\* the four Item fields of each row, as the store holds them
Project(rows) ==
    [i \in 1 .. Len(rows) |->
        [name |-> rows[i].name, price |-> rows[i].price, count |-> rows[i].count,
         category |-> rows[i].category]]

\* the row equals every supplied parameter of q
Satisfies(row, q) ==
    /\ q.name # None => row.name = Get(q.name)
    /\ q.price # None => row.price = Get(q.price)
    /\ q.count # None => row.count = Get(q.count)
    /\ q.category # None => row.category = Get(q.category)

\* the JSON object {}
EmptyDict == [py |-> "dict", len |-> 0]

ClientError(status) == status >= 400 /\ status < 500

----------------------------------------------------------------------------
(* Properties *)

\* What update's handler returns and what the client receives: the code the
\* handler puts in its tuple is the one the properties below expect as the
\* status, and the status sent is 200 whatever that code is.
UpdateCodeIsInTheBodyOnly ==
    (last.route = "update" /\ last.outcome = "returned") =>
        /\ last.status = 200
        /\ last.body = last.ret.items
        /\ last.ret.items[2] =
              IF last.ret.items[1].message = "Item not found" THEN 404
              ELSE IF last.ret.items[1].message = "Item updated successfully" THEN 200
              ELSE 400

\* C1: a partial update on an item_id that has no row in the store responds
\* with HTTP status 404 and the message "Item not found", whatever parameters
\* are supplied, and leaves the store unchanged.
C1_MissingIdResponds404 ==
    [][(/\ last'.route = "update"
        /\ last'.outcome = "returned"
        /\ ~HasId(store, last'.item_id))
       => /\ last'.status = 404
          /\ last'.body = [message |-> "Item not found"]
          /\ store' = store]_vars

\* C2: a partial update on an existing item_id with no parameter supplied
\* responds with HTTP status 400 and the message "No fields to update",
\* issues no update to the store and leaves every row unchanged.
C2_NoFieldsResponds400 ==
    [][(/\ last'.route = "update"
        /\ last'.outcome = "returned"
        /\ HasId(store, last'.item_id)
        /\ last'.query = NoParams)
       => /\ last'.status = 400
          /\ last'.body = [message |-> "No fields to update"]
          /\ last'.calls = 1
          /\ store' = store]_vars

\* C3 as stated: every request of every route makes at most one round trip
\* to the store.
C3_AtMostOneRoundTrip == last.calls <= 1

\* the round trips of the latest request: how many each route may make, and
\* which ones
C3_PerRoute ==
    /\ last.calls = Len(last.trips)
    /\ last.route \in {"index", "query", "add", "delete"} => last.calls <= 1
    /\ last.route = "update" => last.calls <= 2
    /\ last.calls = 2 => last.route = "update" /\ last.trips = <<"select", "update">>
    /\ last.outcome \in {"returned", "raised", "running"} => last.calls >= 1
    /\ last.outcome = "rejected" => last.calls = 0

\* an update goes on to a second round trip (it joins inflight) only from a
\* lookup that found the row, with a field supplied; a second round trip is
\* always that of a request that left inflight, where its lookup had put it
C3_SecondTrip ==
    /\ Len(inflight') > Len(inflight) =>
          /\ last'.route = "update"
          /\ last'.outcome = "running"
          /\ last'.trips = <<"select">>
          /\ HasId(store, last'.item_id)
          /\ last'.query # NoParams
          /\ inflight' = Append(inflight, inflight'[Len(inflight')])
          /\ inflight'[Len(inflight')].item_id = last'.item_id
          /\ inflight'[Len(inflight')].query = last'.query
    /\ last'.calls = 2 =>
          /\ Len(inflight') = Len(inflight) - 1
          /\ \E k \in 1 .. Len(inflight) :
                /\ inflight[k].item_id = last'.item_id
                /\ inflight[k].query = last'.query
    /\ (last'.route = "update" /\ last'.outcome = "returned" /\ last'.calls = 1) =>
          /\ inflight' = inflight
          /\ ~HasId(store, last'.item_id) \/ last'.query = NoParams

\* C3 as amended: a list, filtered query, create or delete request makes at
\* most one round trip; an update request makes at most two, the lookup and
\* then the write, and makes the second only when the lookup found the row
\* and at least one field was supplied.
C3_RoundTripsPerRoute == []C3_PerRoute /\ [][C3_SecondTrip]_vars

C3_Witness == last.route = "update" /\ last.calls = 2

\* C4: the selection of a filtered query is exactly the stored items equal to
\* every supplied parameter, in store order; with no parameter it is what
\* the unfiltered listing returns on the same store, every stored item.
C4_SelectionIsExactMatch ==
    /\ (last.route = "query" /\ last.outcome # "rejected") =>
          LET Keep(row) == Satisfies(row, last.query)
          IN  /\ last.outcome = "returned"
              /\ last.body.selection = Project(SelectSeq(store, Keep))
              /\ last.query = NoParams => last.body.selection = Project(store)
    /\ last.route = "index" =>
          /\ last.outcome = "returned"
          /\ last.body.data = Project(store)

C4_Witness ==
    /\ last.route = "query"
    /\ last.outcome = "returned"
    /\ last.query.category # None
    /\ last.query.name = None
    /\ Len(last.body.selection) = 1
    /\ Len(store) = 2

\* C5: after a create of item X that is not deleted since, the listing
\* contains an entry equal to X on name, price, count and category that also
\* carries the id the store assigned. Every row of the store is such an item.
C5_ListingCarriesId ==
    (last.route = "index" /\ last.outcome = "returned") =>
        \A i \in 1 .. Len(store) :
            \E j \in 1 .. Len(last.body.data) :
                LET entry == last.body.data[j]
                IN  /\ entry.name = store[i].name
                    /\ entry.price = store[i].price
                    /\ entry.count = store[i].count
                    /\ entry.category = store[i].category
                    /\ "id" \in DOMAIN entry
                    /\ entry.id = store[i].id

\* C6: deleting an item_id that has no row in the store is answered
\* successfully with the body {"deleted": {}} and leaves the store unchanged.
C6_DeleteMissingIsEmptyObject ==
    [][(/\ last'.route = "delete"
        /\ ~HasId(store, last'.item_id))
       => /\ last'.status = 200
          /\ last'.body = [deleted |-> EmptyDict]
          /\ store' = store]_vars

\* C7: a request with an invalid parameter (a category outside tools and
\* consumables on create, filter or update; on update a name of length 0 or
\* above 8, a price <= 0, a count < 0 or an item_id < 0) is rejected as a
\* client error before any store query, and the store is unchanged.
C7_InvalidCategory(raw) == raw \notin {"tools", "consumables"}

C7_InvalidRequest(r) ==
    \/ r.route = "add" /\ C7_InvalidCategory(r.item.category)
    \/ /\ r.route = "query"
       /\ r.query.category # None
       /\ C7_InvalidCategory(Get(r.query.category))
    \/ /\ r.route = "update"
       /\ \/ r.item_id < 0
          \/ r.query.category # None /\ C7_InvalidCategory(Get(r.query.category))
          \/ r.query.name # None /\ Len(Get(r.query.name)) = 0
          \/ r.query.name # None /\ Len(Get(r.query.name)) > 8
          \/ r.query.price # None /\ Get(r.query.price) <= 0
          \/ r.query.count # None /\ Get(r.query.count) < 0

C7_InvalidIsRejected ==
    [][C7_InvalidRequest(last')
       => /\ last'.outcome = "rejected"
          /\ ClientError(last'.status)
          /\ last'.calls = 0
          /\ UNCHANGED <<store, nextId, inflight>>]_vars

C7_Witness ==
    /\ last.route = "update"
    /\ last.outcome = "rejected"
    /\ HasId(store, last.item_id)
    /\ last.query.price = Some(0)
    /\ last.query.name = None
    /\ last.query.count = None
    /\ last.query.category = None

\* C8: every stored row has count >= 0 after any sequence of create, update
\* and delete requests on a store whose rows all had count >= 0.
C8_CountNonNegative == \A i \in 1 .. Len(store) : store[i].count >= 0

\* C9: the write of a partial update on an item_id that has a row changes,
\* in that row, exactly the supplied fields to the supplied values; its
\* other fields, its id and every other row are unchanged and no row is
\* added or removed. The update's lookup changes nothing.
C9_Supplied(before, after, param) ==
    IF param # None THEN after = Get(param) ELSE after = before

C9_OnlySuppliedFieldsChange ==
    [][last'.route = "update" =>
        IF last'.calls = 2 /\ HasId(store, last'.item_id)
        THEN /\ Len(store') = Len(store)
             /\ \A i \in 1 .. Len(store) :
                  IF store[i].id = last'.item_id
                  THEN /\ store'[i].id = store[i].id
                       /\ C9_Supplied(store[i].name, store'[i].name, last'.query.name)
                       /\ C9_Supplied(store[i].price, store'[i].price, last'.query.price)
                       /\ C9_Supplied(store[i].count, store'[i].count, last'.query.count)
                       /\ C9_Supplied(store[i].category, store'[i].category,
                                      last'.query.category)
                  ELSE store'[i] = store[i]
        ELSE store' = store]_vars

C9_Witness ==
    /\ last.route = "update"
    /\ last.calls = 2
    /\ Len(store) = 2
    /\ HasId(store, last.item_id)
    /\ last.query.name = None
    /\ last.query.category # None
    /\ \E i \in 1 .. Len(store) :
          /\ store[i].id = last.item_id
          /\ store[i].category = Get(last.query.category)
          /\ store[i].name = "Screwdriver"

\* C10: when the row of a running update is deleted between the update's
\* lookup and its write, the write matches no row, the row is not recreated
\* and the update responds with the "Item was not updated" failure, HTTP 400;
\* in every interleaving the response is a success only if the row existed
\* when the write executed.
C10_LostRowResponds400 ==
    [][(last'.route = "update" /\ last'.calls = 2) =>
        /\ ~HasId(store, last'.item_id) =>
              /\ store' = store
              /\ last'.status = 400
              /\ last'.body = [message |-> "Item was not updated", data |-> << >>]
        /\ last'.status = 200 => HasId(store, last'.item_id)]_vars

====
